---- MODULE Spec2Model ----
(***************************************************************************)
(* Model of miip_trip_calculator.py, a Streamlit script.  Every widget     *)
(* interaction re-runs the whole script top to bottom, so each action      *)
(* below changes one widget value (or the pricing source's answer) and     *)
(* then recomputes every value the script derives.                         *)
(*                                                                         *)
(* Money is exact: an amount is an integer number of Units, 40 Units to    *)
(* the cent, so that 7.5% of a whole number of cents is again an integer.  *)
(* Python floats are modelled by these exact values; round(x, 2) is        *)
(* modelled on the exact value, and where the exact value lies halfway     *)
(* between two cents (where the binary float decides) either neighbour     *)
(* is a possible outcome.                                                  *)
(***************************************************************************)
EXTENDS Integers, Sequences, FiniteSets, TLC

\* ---------------------------------------------------------------------
\* Money
\* ---------------------------------------------------------------------

\* Units per cent: chosen so that CONTINGENCY_RATE (0.075 = 3/40) of one cent
\* is a whole number of Units.
Cent == 40

Dollar == 100 * Cent

\* $d.cc as Units
Usd(d, c) == d * Dollar + c * Cent

\* round(num/den, 2): the multiples of Cent nearest to num/den (den > 0).
\* Two values exactly at a tie.
Round2Set(num, den) ==
    LET q   == num \div (den * Cent)
        lo  == q * Cent
        rem == num - lo * den
    IN  IF 2 * rem < den * Cent THEN {lo}
        ELSE IF 2 * rem > den * Cent THEN {lo + Cent}
        ELSE {lo, lo + Cent}

\* round(x, 2) of an amount that has no tie (every use below has den = 1 or
\* a product that never ends in half a cent)
Round2(num, den) == CHOOSE r \in Round2Set(num, den) : TRUE

RECURSIVE SumSeq(_)
SumSeq(s) == IF s = <<>> THEN 0 ELSE Head(s) + SumSeq(Tail(s))

\* round(mean(prices), 2) for a non-empty list of prices
RoundedMean(prices) == Round2Set(SumSeq(prices), Len(prices))

\* ---------------------------------------------------------------------
\* Text: a str is a sequence of one-character strings
\* ---------------------------------------------------------------------

LowerLetters == <<"a","b","c","d","e","f","g","h","i","j","k","l","m",
                  "n","o","p","q","r","s","t","u","v","w","x","y","z">>
UpperLetters == <<"A","B","C","D","E","F","G","H","I","J","K","L","M",
                  "N","O","P","Q","R","S","T","U","V","W","X","Y","Z">>

\* lower-case letter -> upper-case letter
UpperOf == [c \in {LowerLetters[i] : i \in DOMAIN LowerLetters} |->
               UpperLetters[CHOOSE i \in DOMAIN LowerLetters : LowerLetters[i] = c]]

UpperChar(c) == IF c \in DOMAIN UpperOf THEN UpperOf[c] ELSE c

\* str.upper()
Upper(s) == [i \in DOMAIN s |-> UpperChar(s[i])]

RECURSIVE LStrip(_)
LStrip(s) == IF s # <<>> /\ Head(s) = " " THEN LStrip(Tail(s)) ELSE s

RECURSIVE RStrip(_)
RStrip(s) == IF s # <<>> /\ s[Len(s)] = " " THEN RStrip(SubSeq(s, 1, Len(s) - 1)) ELSE s

\* str.strip()
Strip(s) == RStrip(LStrip(s))

\* dict.get(key, default)
Get(table, key, default) == IF key \in DOMAIN table THEN table[key] ELSE default

\* ---------------------------------------------------------------------
\* Constants
\* ---------------------------------------------------------------------

AIRLINE_CODES ==
    ("Delta" :> "DL") @@ ("Southwest" :> "WN") @@ ("JetBlue" :> "B6") @@ ("American" :> "AA")

DOMESTIC_BAG_FEE_BY_AIRLINE ==
    ("Southwest" :> Usd(0, 0)) @@ ("JetBlue" :> Usd(70, 0)) @@
    ("Delta" :> Usd(70, 0)) @@ ("American" :> Usd(70, 0))

DEFAULT_BAG_FEE == Usd(70, 0)

US_AIRPORTS == {
    <<"B","O","S">>, <<"M","H","T">>, <<"J","F","K">>, <<"L","G","A">>, <<"E","W","R">>,
    <<"P","H","L">>, <<"D","C","A">>, <<"I","A","D">>, <<"B","W","I">>, <<"C","L","T">>,
    <<"A","T","L">>, <<"M","C","O">>, <<"T","P","A">>, <<"M","I","A">>, <<"F","L","L">>,
    <<"O","R","D">>, <<"M","D","W">>, <<"D","F","W">>, <<"D","A","L">>, <<"I","A","H">>,
    <<"H","O","U">>, <<"D","E","N">>, <<"P","H","X">>, <<"L","A","S">>, <<"L","A","X">>,
    <<"S","F","O">>, <<"S","E","A">>, <<"H","N","L">>, <<"O","G","G">>, <<"L","I","H">>,
    <<"K","O","A">>, <<"S","L","C">>, <<"M","S","Y">>, <<"S","D","F">>, <<"A","U","S">> }

HOTEL_BASE_RATE_BY_AIRPORT ==
    (<<"B","O","S">> :> Usd(260, 0)) @@ (<<"J","F","K">> :> Usd(280, 0)) @@
    (<<"L","G","A">> :> Usd(270, 0)) @@ (<<"E","W","R">> :> Usd(260, 0)) @@
    (<<"L","A","X">> :> Usd(260, 0)) @@ (<<"S","F","O">> :> Usd(280, 0)) @@
    (<<"S","E","A">> :> Usd(250, 0)) @@ (<<"D","E","N">> :> Usd(210, 0)) @@
    (<<"M","C","O">> :> Usd(210, 0)) @@ (<<"T","P","A">> :> Usd(215, 0)) @@
    (<<"M","I","A">> :> Usd(260, 0)) @@ (<<"C","L","T">> :> Usd(190, 0)) @@
    (<<"P","H","L">> :> Usd(210, 0)) @@ (<<"O","R","D">> :> Usd(230, 0)) @@
    (<<"A","T","L">> :> Usd(210, 0)) @@ (<<"B","W","I">> :> Usd(195, 0)) @@
    (<<"S","L","C">> :> Usd(200, 0)) @@ (<<"D","F","W">> :> Usd(195, 0)) @@
    (<<"I","A","H">> :> Usd(190, 0)) @@ (<<"A","U","S">> :> Usd(210, 0)) @@
    (<<"F","L","L">> :> Usd(230, 0)) @@ (<<"I","A","D">> :> Usd(210, 0)) @@
    (<<"D","C","A">> :> Usd(240, 0)) @@ (<<"M","S","Y">> :> Usd(200, 0)) @@
    (<<"S","D","F">> :> Usd(175, 0))

DEFAULT_HOTEL_NIGHTLY_RATE == Usd(190, 0)

HERTZ_BASE_DAILY_BY_AIRPORT ==
    (<<"B","O","S">> :> Usd(70, 0)) @@ (<<"M","H","T">> :> Usd(60, 0)) @@
    (<<"J","F","K">> :> Usd(75, 0)) @@ (<<"L","G","A">> :> Usd(75, 0)) @@
    (<<"E","W","R">> :> Usd(72, 0)) @@ (<<"T","P","A">> :> Usd(65, 0)) @@
    (<<"M","C","O">> :> Usd(65, 0)) @@ (<<"M","I","A">> :> Usd(70, 0)) @@
    (<<"D","E","N">> :> Usd(68, 0)) @@ (<<"S","F","O">> :> Usd(78, 0)) @@
    (<<"L","A","X">> :> Usd(78, 0)) @@ (<<"S","E","A">> :> Usd(72, 0)) @@
    (<<"B","W","I">> :> Usd(62, 0)) @@ (<<"S","L","C">> :> Usd(64, 0)) @@
    (<<"D","F","W">> :> Usd(60, 0)) @@ (<<"I","A","H">> :> Usd(60, 0)) @@
    (<<"A","U","S">> :> Usd(62, 0)) @@ (<<"F","L","L">> :> Usd(66, 0)) @@
    (<<"I","A","D">> :> Usd(64, 0)) @@ (<<"D","C","A">> :> Usd(66, 0)) @@
    (<<"M","S","Y">> :> Usd(60, 0)) @@ (<<"S","D","F">> :> Usd(55, 0))

DEFAULT_HERTZ_BASE_DAILY == Usd(80, 0)

\* 0.15 and 0.12, in percent
HERTZ_SUV_UPLIFT == 15
HERTZ_MEMBERSHIP_DISCOUNT == 12

MEALS_PER_DAY == Usd(100, 0)

\* 0.075 = CONTINGENCY_RATE / CONTINGENCY_RATE_DEN
CONTINGENCY_RATE == 3
CONTINGENCY_RATE_DEN == 40

GAS_COST == Usd(60, 0)
TOLLS_COST == Usd(35, 0)
PARKING_COST == Usd(50, 0)
AIRPORT_SHUTTLE_TIPS == Usd(10, 0)
HOUSEKEEPING_PER_NIGHT == Usd(10, 0)

CAR_SERVICE_RATES_ONE_WAY ==
    (<<"B","O","S">> :> (("1-3" :> Usd(161, 76)) @@ ("4-5" :> Usd(229, 12)) @@ ("6-14" :> Usd(295, 0)))) @@
    (<<"M","H","T">> :> (("1-3" :> Usd(97, 19)) @@ ("4-5" :> Usd(184, 76)) @@ ("6-14" :> Usd(228, 54))))

CAR_SERVICE_HOLIDAY_SURCHARGE == Usd(25, 0)

\* ---------------------------------------------------------------------
\* datetime.date: a record [year, month, day] of the proleptic Gregorian
\* calendar
\* ---------------------------------------------------------------------

date(y, m, d) == [year |-> y, month |-> m, day |-> d]

IsLeap(y) == (y % 4 = 0) /\ ((y % 100 # 0) \/ (y % 400 = 0))

DaysInMonth(y, m) ==
    IF m = 2 THEN (IF IsLeap(y) THEN 29 ELSE 28)
    ELSE IF m \in {4, 6, 9, 11} THEN 30 ELSE 31

\* days of a common year before the first of each month
DaysBeforeMonthCommon == <<0, 31, 59, 90, 120, 151, 181, 212, 243, 273, 304, 334>>

DaysBeforeMonth(y, m) ==
    DaysBeforeMonthCommon[m] + (IF m > 2 /\ IsLeap(y) THEN 1 ELSE 0)

DaysBeforeYear(y) ==
    (y - 1) * 365 + ((y - 1) \div 4) - ((y - 1) \div 100) + ((y - 1) \div 400)

\* date.toordinal(): 0001-01-01 is day 1
toordinal(d) == DaysBeforeYear(d.year) + DaysBeforeMonth(d.year, d.month) + d.day

\* (a - b).days
DaysBetween(a, b) == toordinal(a) - toordinal(b)

\* date.weekday(): Monday is 0
weekday(d) == (toordinal(d) + 6) % 7

NextDay(d) ==
    IF d.day < DaysInMonth(d.year, d.month) THEN date(d.year, d.month, d.day + 1)
    ELSE IF d.month < 12 THEN date(d.year, d.month + 1, 1)
    ELSE date(d.year + 1, 1, 1)

PrevDay(d) ==
    IF d.day > 1 THEN date(d.year, d.month, d.day - 1)
    ELSE IF d.month > 1 THEN date(d.year, d.month - 1, DaysInMonth(d.year, d.month - 1))
    ELSE date(d.year - 1, 12, 31)

\* d + timedelta(days=n)
RECURSIVE PlusDays(_, _)
PlusDays(d, n) ==
    IF n = 0 THEN d
    ELSE IF n > 0 THEN PlusDays(NextDay(d), n - 1)
    ELSE PlusDays(PrevDay(d), n + 1)

\* ---------------------------------------------------------------------
\* Holiday helpers (true-date holidays, not observed)
\* ---------------------------------------------------------------------

nth_weekday_of_month(year, month, wd, n) ==
    LET first  == date(year, month, 1)
        offset == (wd - weekday(first)) % 7
        day    == 1 + offset + 7 * (n - 1)
    IN  date(year, month, day)

last_weekday_of_month(year, month, wd) ==
    LET next_month == IF month = 12 THEN date(year + 1, 1, 1) ELSE date(year, month + 1, 1)
        last_day   == PlusDays(next_month, 0 - 1)
        offset     == (weekday(last_day) - wd) % 7
    IN  PlusDays(last_day, 0 - offset)

us_holidays_for_year(year) ==
    LET new_years    == date(year, 1, 1)
        juneteenth   == date(year, 6, 19)
        independence == date(year, 7, 4)
        veterans     == date(year, 11, 11)
        christmas    == date(year, 12, 25)
        mlk          == nth_weekday_of_month(year, 1, 0, 3)
        presidents   == nth_weekday_of_month(year, 2, 0, 3)
        memorial     == last_weekday_of_month(year, 5, 0)
        labor        == nth_weekday_of_month(year, 9, 0, 1)
        columbus     == nth_weekday_of_month(year, 10, 0, 2)
        thanksgiving == nth_weekday_of_month(year, 11, 3, 4)
    IN  { new_years, mlk, presidents, memorial, juneteenth, independence,
          labor, columbus, veterans, thanksgiving, christmas }

is_holiday(date_obj) == date_obj \in us_holidays_for_year(date_obj.year)

\* ---------------------------------------------------------------------
\* Pricing helpers
\* ---------------------------------------------------------------------

\* mutant: only the origin is looked up
is_domestic_OriginOnly(origin, dest) == Upper(origin) \in US_AIRPORTS

is_domestic(origin, dest) == Upper(origin) \in US_AIRPORTS /\ Upper(dest) \in US_AIRPORTS

\* mutant: the key is looked up as typed
hotel_rate_CaseSensitive(dest) == Get(HOTEL_BASE_RATE_BY_AIRPORT, dest, DEFAULT_HOTEL_NIGHTLY_RATE)

hotel_rate(dest) == Get(HOTEL_BASE_RATE_BY_AIRPORT, Upper(dest), DEFAULT_HOTEL_NIGHTLY_RATE)

\* mutant: the discount is subtracted from the uplift instead of compounding
hertz_rate_AdditiveDiscount(dest) ==
    LET base == Get(HERTZ_BASE_DAILY_BY_AIRPORT, Upper(dest), DEFAULT_HERTZ_BASE_DAILY)
    IN  Round2((base \div 100) * (100 + HERTZ_SUV_UPLIFT - HERTZ_MEMBERSHIP_DISCOUNT) * 100, 100)

\* round(base * (1 + uplift) * (1 - discount), 2).  Every base rate is a
\* whole number of dollars, so base \div 100 is exact.
hertz_rate(dest) ==
    LET base == Get(HERTZ_BASE_DAILY_BY_AIRPORT, Upper(dest), DEFAULT_HERTZ_BASE_DAILY)
    IN  Round2((base \div 100) * (100 + HERTZ_SUV_UPLIFT) * (100 - HERTZ_MEMBERSHIP_DISCOUNT), 100)

\* Optional[float]: None is the empty tuple, a value v is <<v>>
None == <<>>
Some(v) == <<v>>

\* A flight offer of the response.  grandTotal is the price field as sent:
\* kind "missing" (no such key), "garbage" (text float() rejects) or
\* "decimal" (text float() accepts, value in Units).  validatingAirlineCodes
\* is a list of carrier codes (<<>> when absent or empty) and
\* validatingAirlineCode a single code ("" when absent).
Offer(kind, value, codes, code) ==
    [grandTotal |-> [kind |-> kind, value |-> value],
     validatingAirlineCodes |-> codes, validatingAirlineCode |-> code]

\* float(o["price"]["grandTotal"]) does not raise
Parses(o) == o.grandTotal.kind = "decimal"

\* lines 256-261: the offer is one of the preferred carrier
IsPreferredOffer(o, preferred_code) ==
    /\ preferred_code # ""
    /\ IF o.validatingAirlineCodes # <<>>
       THEN \E i \in DOMAIN o.validatingAirlineCodes : o.validatingAirlineCodes[i] = preferred_code
       ELSE o.validatingAirlineCode # "" /\ o.validatingAirlineCode = preferred_code

\* lines 248-254: the offers whose price enters all_prices
PricedOffers(offers) == SelectSeq(offers, Parses)

PricesOf(offers) == [i \in DOMAIN offers |-> offers[i].grandTotal.value]

\* The possible results (avg_price, status) of one call, given what the
\* pricing source answers: resp.raises when the request raises, else
\* resp.data.
avg_flight_cost(resp, preferred_airline) ==
    LET preferred_code   == Get(AIRLINE_CODES, preferred_airline, "")
        offers           == resp.data
        priced           == PricedOffers(offers)
        all_prices       == PricesOf(priced)
        preferred_prices == PricesOf(SelectSeq(priced, LAMBDA o : IsPreferredOffer(o, preferred_code)))
    IN  IF resp.raises THEN {[avg_price |-> None, status |-> "error"]}
        ELSE IF offers = <<>> THEN {[avg_price |-> None, status |-> "none"]}
        ELSE IF preferred_prices # <<>>
        THEN {[avg_price |-> Some(p), status |-> "preferred"] : p \in RoundedMean(preferred_prices)}
        ELSE IF all_prices # <<>>
        THEN {[avg_price |-> Some(p), status |-> "fallback_all"] : p \in RoundedMean(all_prices)}
        ELSE {[avg_price |-> None, status |-> "none"]}

\* ---------------------------------------------------------------------
\* Car service helpers
\* ---------------------------------------------------------------------

NoTier == "None"

\* mutant: the largest tier has no upper end
car_service_vehicle_tier_NoCap(n) ==
    IF 1 <= n /\ n <= 3 THEN "1-3"
    ELSE IF 4 <= n /\ n <= 5 THEN "4-5"
    ELSE IF 6 <= n THEN "6-14"
    ELSE NoTier

car_service_vehicle_tier(n) ==
    IF 1 <= n /\ n <= 3 THEN "1-3"
    ELSE IF 4 <= n /\ n <= 5 THEN "4-5"
    ELSE IF 6 <= n /\ n <= 14 THEN "6-14"
    ELSE NoTier

CarResult(total, outbound_tier, outbound_one_way, return_one_way, return_total, dep_h, ret_h, return_tier) ==
    [total |-> total, outbound_tier |-> outbound_tier, outbound_one_way |-> outbound_one_way,
     return_one_way |-> return_one_way, return_total |-> return_total,
     dep_is_holiday |-> dep_h, ret_is_holiday |-> ret_h, return_tier |-> return_tier]

\* mutant: individual returns are priced at the outbound tier
ReturnLeg_OutboundTierEach(airport, n, outbound_tier, individual) ==
    IF individual
    THEN [tier |-> outbound_tier, one_way |-> CAR_SERVICE_RATES_ONE_WAY[airport][outbound_tier],
          total |-> Round2(CAR_SERVICE_RATES_ONE_WAY[airport][outbound_tier] * n, 1)]
    ELSE [tier |-> outbound_tier, one_way |-> CAR_SERVICE_RATES_ONE_WAY[airport][outbound_tier],
          total |-> Round2(CAR_SERVICE_RATES_ONE_WAY[airport][outbound_tier], 1)]

\* lines 321-330: (return_tier, return_one_way, return_total)
ReturnLeg(airport, n, outbound_tier, individual) ==
    IF individual
    THEN [tier |-> "1-3", one_way |-> CAR_SERVICE_RATES_ONE_WAY[airport]["1-3"],
          total |-> Round2(CAR_SERVICE_RATES_ONE_WAY[airport]["1-3"] * n, 1)]
    ELSE [tier |-> outbound_tier, one_way |-> CAR_SERVICE_RATES_ONE_WAY[airport][outbound_tier],
          total |-> Round2(CAR_SERVICE_RATES_ONE_WAY[airport][outbound_tier], 1)]

\* mutant: the surcharge is charged per holiday date
HolidayFee_PerDate(dep_h, ret_h) ==
    (IF dep_h THEN CAR_SERVICE_HOLIDAY_SURCHARGE ELSE 0)
    + (IF ret_h THEN CAR_SERVICE_HOLIDAY_SURCHARGE ELSE 0)

\* line 336
HolidayFee(dep_h, ret_h) == IF dep_h \/ ret_h THEN CAR_SERVICE_HOLIDAY_SURCHARGE ELSE 0

estimate_car_service_total(departure_airport, n, include, dep, ret, individual) ==
    LET airport == Upper(departure_airport)
        outbound_tier == car_service_vehicle_tier(n)
    IN  IF ~include THEN CarResult(0, "n/a", 0, 0, 0, FALSE, FALSE, "n/a")
        ELSE IF airport \notin DOMAIN CAR_SERVICE_RATES_ONE_WAY
        THEN CarResult(0, "unsupported-airport", 0, 0, 0, FALSE, FALSE, "n/a")
        ELSE IF outbound_tier = NoTier
        THEN CarResult(0, "unsupported", 0, 0, 0, FALSE, FALSE, "n/a")
        ELSE LET outbound_one_way == CAR_SERVICE_RATES_ONE_WAY[airport][outbound_tier]
                 leg        == ReturnLeg(airport, n, outbound_tier, individual)
                 base_total == Round2(outbound_one_way + leg.total, 1)
                 dep_h      == is_holiday(dep)
                 ret_h      == is_holiday(ret)
                 total      == Round2(base_total + HolidayFee(dep_h, ret_h), 1)
             IN  CarResult(total, outbound_tier, outbound_one_way, leg.one_way, leg.total,
                           dep_h, ret_h, leg.tier)

\* ---------------------------------------------------------------------
\* Calculations (lines 398-492)
\* ---------------------------------------------------------------------

AUTO == "Auto calculate"
MANUAL == "Enter manually"

Max(a, b) == IF a >= b THEN a ELSE b

\* mutant: the departure day is not counted
TripDays_Exclusive(dep, ret) == DaysBetween(ret, dep)

TripDays(dep, ret) == DaysBetween(ret, dep) + 1

TripNights(days) == Max(days - 1, 0)

\* line 358: st.text_input(...).strip().upper()
DestAirport(text) == Upper(Strip(text))

\* lines 406-416: avg_flight_cost is called
CallsPricing(m, dest, secrets) == m # MANUAL /\ Len(dest) = 3 /\ secrets

\* fare when avg_flight_cost was not called in the run
NotCalled == [avg_price |-> None, status |-> "not-called"]

\* lines 404-429
FlightPP(m, manual, called, res) ==
    IF m = MANUAL THEN manual
    ELSE IF ~called THEN 0
    ELSE IF res.status = "error" THEN 0
    ELSE IF res.status = "none" \/ res.avg_price = None THEN 0
    ELSE res.avg_price[1]

\* the st.warning / st.error / st.caption of lines 410-429
FlightNotice(m, dest, secrets, res) ==
    IF m = MANUAL THEN {}
    ELSE IF Len(dest) # 3 THEN {"warning: enter a valid 3-letter destination"}
    ELSE IF ~secrets THEN {"warning: auto-calculate unavailable"}
    ELSE IF res.status = "error" THEN {"error: flight search failed"}
    ELSE IF res.status = "none" \/ res.avg_price = None THEN {"error: no offers"}
    ELSE IF res.status = "preferred" THEN {"caption: preferred airline average"}
    ELSE {"warning: no usable prices for the preferred airline, using all airlines"}

FlightsTotal(pp, n) == pp * n

BagFeePerTraveler(airline, dep, dest) ==
    IF Len(dest) = 3 /\ is_domestic(dep, dest)
    THEN Get(DOMESTIC_BAG_FEE_BY_AIRLINE, airline, DEFAULT_BAG_FEE)
    ELSE 0

BagsTotal(fee, n) == fee * n

NightlyHotelRate(dest) == IF Len(dest) = 3 THEN hotel_rate(dest) ELSE DEFAULT_HOTEL_NIGHTLY_RATE

HotelTotal(rate, nights, n) == rate * nights * n

MealsTotal(days, n) == MEALS_PER_DAY * days * n

DailyRentalRate(rental, dest, dep) ==
    IF rental /\ Len(dest) = 3 THEN hertz_rate(dest)
    ELSE IF rental THEN hertz_rate(dep) ELSE 0

RentalTotal(rental, rate, days) == IF rental THEN rate * days ELSE 0

HousekeepingTotal(nights, n) == HOUSEKEEPING_PER_NIGHT * nights * n

FixedIncidentalsTotal(housekeeping) ==
    GAS_COST + TOLLS_COST + PARKING_COST + AIRPORT_SHUTTLE_TIPS + housekeeping

\* lines 472-475
CarNotice(include, c) ==
    (IF include /\ c.outbound_tier = "unsupported-airport"
     THEN {"error: car service only available for BOS or MHT"} ELSE {})
    \cup
    (IF include /\ c.outbound_tier = "unsupported"
     THEN {"error: car service supports up to 14 passengers"} ELSE {})

\* line 478
CarHolidayFee(c) ==
    IF c.dep_is_holiday \/ c.ret_is_holiday THEN CAR_SERVICE_HOLIDAY_SURCHARGE ELSE 0

\* mutant: the manual extras are left out of the sum
Subtotal_WithoutOther(flights, bags, hotel, meals, rental, fixed, car_service, other) ==
    flights + bags + hotel + meals + rental + fixed + car_service

Subtotal(flights, bags, hotel, meals, rental, fixed, car_service, other) ==
    flights + bags + hotel + meals + rental + fixed + car_service + other

\* subtotal * CONTINGENCY_RATE; a subtotal is a whole number of cents
Contingency(sub) == (sub \div CONTINGENCY_RATE_DEN) * CONTINGENCY_RATE

GrandTotal(sub, cont) == sub + cont

\* What a run of the script may get from the pricing source: the results
\* of the one call to avg_flight_cost, or NotCalled when the run does not
\* reach the call.
FareResults(w, secrets, src) ==
    IF CallsPricing(w.mode, DestAirport(w.dest_text), secrets)
    THEN avg_flight_cost(src, w.preferred_airline)
    ELSE {NotCalled}

\* One run of the script (lines 398-492) over the widget values w, with res
\* the fare obtained: every value the run computes, under its name in the
\* script, in the order the script computes them.  queries counts the
\* searches sent to the pricing source and shown holds the notices put on
\* the page.

\* lines 358, 398-399
ScriptTrip(w) ==
    [dest_airport |-> DestAirport(w.dest_text),
     trip_days    |-> TripDays(w.dep_date, w.ret_date),
     trip_nights  |-> TripNights(TripDays(w.dep_date, w.ret_date))]

\* lines 404-429, 433-437, 440, 445, 449, 453-470
ScriptRates(w, secrets, res, c) ==
    c @@
    [fare    |-> res,
     queries |-> (IF CallsPricing(w.mode, c.dest_airport, secrets) THEN 1 ELSE 0),
     flight_pp |-> FlightPP(w.mode, w.manual_flight,
                            CallsPricing(w.mode, c.dest_airport, secrets), res),
     bag_fee_per_traveler |-> BagFeePerTraveler(w.preferred_airline, w.dep_airport, c.dest_airport),
     nightly_hotel_rate   |-> NightlyHotelRate(c.dest_airport),
     daily_rental_rate    |-> DailyRentalRate(w.include_rental, c.dest_airport, w.dep_airport),
     housekeeping_total   |-> HousekeepingTotal(c.trip_nights, w.travelers),
     car |-> estimate_car_service_total(w.dep_airport, w.travelers, w.include_car_service,
                                        w.dep_date, w.ret_date, w.individual_return_home)]

\* lines 410-429, 431, 438, 441, 443, 446, 450, 472-478
ScriptTotals(w, secrets, c) ==
    c @@
    [flights_total |-> FlightsTotal(c.flight_pp, w.travelers),
     bags_total    |-> BagsTotal(c.bag_fee_per_traveler, w.travelers),
     hotel_total   |-> HotelTotal(c.nightly_hotel_rate, c.trip_nights, w.travelers),
     meals_total   |-> MealsTotal(c.trip_days, w.travelers),
     rental_total  |-> RentalTotal(w.include_rental, c.daily_rental_rate, c.trip_days),
     fixed_incidentals_total |-> FixedIncidentalsTotal(c.housekeeping_total),
     car_holiday_fee |-> CarHolidayFee(c.car),
     shown |-> FlightNotice(w.mode, c.dest_airport, secrets, c.fare)
               \cup CarNotice(w.include_car_service, c.car)]

\* lines 480-489
ScriptSubtotal(w, c) ==
    c @@
    [subtotal |-> Subtotal(c.flights_total, c.bags_total, c.hotel_total, c.meals_total,
                           c.rental_total, c.fixed_incidentals_total, c.car.total,
                           w.other_fixed)]

\* line 491
ScriptContingency(c) == c @@ [contingency |-> Contingency(c.subtotal)]

\* line 492
ScriptGrandTotal(c) == c @@ [grand_total |-> GrandTotal(c.subtotal, c.contingency)]

Script(w, secrets, res) ==
    ScriptGrandTotal(ScriptContingency(ScriptSubtotal(w,
        ScriptTotals(w, secrets, ScriptRates(w, secrets, res, ScriptTrip(w))))))

\* ---------------------------------------------------------------------
\* State
\* ---------------------------------------------------------------------

VARIABLES
    \* the widget values of the session
    travelers, dep_airport, preferred_airline, dest_text, dep_date, ret_date,
    include_rental, other_fixed, include_car_service, individual_return_home,
    mode, manual_flight,
    \* environment: whether st.secrets holds the credentials, and what the
    \* pricing source answers to a search
    secrets_ok, source,
    \* the values computed by the last run of the script
    calc

widgets == <<travelers, dep_airport, preferred_airline, dest_text, dep_date, ret_date,
             include_rental, other_fixed, include_car_service, individual_return_home,
             mode, manual_flight>>

vars == <<widgets, secrets_ok, source, calc>>

\* the widget values as one record
W == [travelers |-> travelers, dep_airport |-> dep_airport,
      preferred_airline |-> preferred_airline, dest_text |-> dest_text,
      dep_date |-> dep_date, ret_date |-> ret_date,
      include_rental |-> include_rental, other_fixed |-> other_fixed,
      include_car_service |-> include_car_service,
      individual_return_home |-> individual_return_home,
      mode |-> mode, manual_flight |-> manual_flight]

\* ---------------------------------------------------------------------
\* Widget options and the state after the first run
\* ---------------------------------------------------------------------

BOS == <<"B","O","S">>
MHT == <<"M","H","T">>
BWI == <<"B","W","I">>

\* line 354: the options of the departure selectbox
DEP_AIRPORT_OPTIONS == {BOS, MHT, BWI, <<"S","L","C">>, <<"D","F","W">>, <<"I","A","H">>,
                        <<"A","U","S">>, <<"F","L","L">>, <<"I","A","D">>, <<"O","R","D">>,
                        <<"D","C","A">>, <<"M","S","Y">>, <<"S","D","F">>}

\* line 357: the options of the airline selectbox
AIRLINE_OPTIONS == DOMAIN AIRLINE_CODES

NoOffers == [raises |-> FALSE, data |-> <<>>]

\* The page after its first run: every widget at its default (lines 349-392,
\* 402), today being the day of the session; dest is <<>> there.  A
\* specification about one part of the page starts with the destination
\* already typed.
InitWith(todays, secretss, dest) ==
    /\ travelers = 1
    /\ dep_airport = BOS
    /\ preferred_airline = "Delta"
    /\ dest_text = dest
    /\ dep_date \in todays
    /\ ret_date = PlusDays(dep_date, 1)
    /\ include_rental = TRUE
    /\ other_fixed = 0
    /\ include_car_service = FALSE
    /\ individual_return_home = FALSE
    /\ mode = AUTO
    /\ manual_flight = 0
    /\ secrets_ok \in secretss
    /\ source = NoOffers
    /\ \E res \in FareResults(W, secrets_ok, source) : calc = Script(W, secrets_ok, res)

\* ---------------------------------------------------------------------
\* Actions: one widget interaction (or a new answer of the pricing source
\* followed by a rerun), then the whole script again
\* ---------------------------------------------------------------------

Interact(w, src) ==
    /\ travelers' = w.travelers
    /\ dep_airport' = w.dep_airport
    /\ preferred_airline' = w.preferred_airline
    /\ dest_text' = w.dest_text
    /\ dep_date' = w.dep_date
    /\ ret_date' = w.ret_date
    /\ include_rental' = w.include_rental
    /\ other_fixed' = w.other_fixed
    /\ include_car_service' = w.include_car_service
    /\ individual_return_home' = w.individual_return_home
    /\ mode' = w.mode
    /\ manual_flight' = w.manual_flight
    /\ source' = src
    /\ UNCHANGED secrets_ok
    /\ \E res \in FareResults(w, secrets_ok, src) : calc' = Script(w, secrets_ok, res)

\* line 349 (min_value=1); the "Individual return home" checkbox of line 392
\* is on the page, and keeps its value, only while travelers >= 2
SetTravelers(n) ==
    /\ n >= 1
    /\ Interact([W EXCEPT !.travelers = n,
                          !.individual_return_home = include_car_service /\ n >= 2 /\ @], source)

SetDepAirport(a) ==
    /\ a \in DEP_AIRPORT_OPTIONS
    /\ Interact([W EXCEPT !.dep_airport = a], source)

SetPreferredAirline(p) ==
    /\ p \in AIRLINE_OPTIONS
    /\ Interact([W EXCEPT !.preferred_airline = p], source)

SetDestText(t) == Interact([W EXCEPT !.dest_text = t], source)

\* lines 370-376: the return-date widget takes its default and its minimum
\* from the departure date, so a new departure date re-creates it at
\* dep_date + 1
SetDepDate(d) == Interact([W EXCEPT !.dep_date = d, !.ret_date = PlusDays(d, 1)], source)

\* line 374: min_value = dep_date + 1
SetRetDate(d) ==
    /\ DaysBetween(d, dep_date) >= 1
    /\ Interact([W EXCEPT !.ret_date = d], source)

SetIncludeRental(b) == Interact([W EXCEPT !.include_rental = b], source)

\* line 381 (min_value=0.0)
SetOtherFixed(x) ==
    /\ x >= 0
    /\ Interact([W EXCEPT !.other_fixed = x], source)

\* lines 385-392: the checkbox below it appears unchecked
SetIncludeCarService(b) ==
    /\ b # include_car_service
    /\ Interact([W EXCEPT !.include_car_service = b, !.individual_return_home = FALSE], source)

SetIndividualReturn(b) ==
    /\ include_car_service /\ travelers >= 2
    /\ Interact([W EXCEPT !.individual_return_home = b], source)

\* line 402; the manual price input of line 407 is on the page only in
\* manual mode and appears at 0.0
SetMode(m) ==
    /\ m \in {AUTO, MANUAL}
    /\ m # mode
    /\ Interact([W EXCEPT !.mode = m, !.manual_flight = 0], source)

\* line 407 (min_value=0.0)
SetManualFlight(x) ==
    /\ mode = MANUAL
    /\ x >= 0
    /\ Interact([W EXCEPT !.manual_flight = x], source)

\* The pricing source lists one more offer, and the page is run again.
OfferListed(o) == Interact(W, [raises |-> FALSE, data |-> Append(source.data, o)])

\* The pricing source has no offer any more, and the page is run again.
OffersWithdrawn ==
    /\ source # NoOffers
    /\ Interact(W, NoOffers)

\* The search raises (ResponseError or any other exception) from now on.
SearchFails ==
    /\ ~source.raises
    /\ Interact(W, [raises |-> TRUE, data |-> <<>>])

\* ---------------------------------------------------------------------
\* Bounds and input choices
\* ---------------------------------------------------------------------

\* largest party in Spec and SpecFare
MaxParty == 2
\* largest party in SpecCar (one above the largest car-service tier)
MaxTravelers == 15
\* most offers the pricing source lists in SpecFare, and in Spec
MaxOffers == 3
MaxListed == 1
\* longest stay, in nights
MaxStay == 10

DateChoices == { date(2024, 2, 28), date(2025, 3, 10), date(2025, 3, 13), date(2025, 5, 26),
                 date(2025, 11, 11), date(2025, 11, 20), date(2025, 11, 27), date(2025, 12, 24),
                 date(2025, 12, 25), date(2025, 12, 31), date(2026, 1, 1), date(2026, 1, 19) }

\* what may be typed into the destination field
DestTexts == { <<>>, <<"t","p","a">>, <<" ","T","P","A"," ">>, <<"S","D","F">>, <<"H","N","L">>,
               <<"L","H","R">>, <<"T","P">> }

Prices == { 0 - Usd(50, 0), Usd(150, 0), Usd(180, 0), Usd(210, 0) }

\* offers of two carriers, priced or not, naming the carrier in the list
\* field; and one naming it in the single-code field
FareOffers ==
    { Offer("decimal", v, <<c>>, "") : v \in Prices, c \in {"DL", "B6"} }
    \cup { Offer("missing", 0, <<"DL">>, ""), Offer("garbage", 0, <<"DL">>, ""),
            Offer("decimal", Usd(180, 1), <<"DL">>, ""),
            Offer("decimal", Usd(150, 0), <<>>, "DL") }

ListedOffers == { Offer("decimal", Usd(180, 0), <<"B6">>, ""),
                  Offer("garbage", 0, <<"DL">>, "") }

\* ---------------------------------------------------------------------
\* Specifications
\* ---------------------------------------------------------------------

\* The whole page.
Init == InitWith({date(2025, 3, 10)}, BOOLEAN, <<>>)

Next ==
    \/ \E n \in 1..MaxParty : SetTravelers(n)
    \/ \E a \in {BOS, BWI} : SetDepAirport(a)
    \/ \E p \in {"Delta", "Southwest"} : SetPreferredAirline(p)
    \/ \E t \in {<<>>, <<"t","p","a">>, <<"L","H","R">>} : SetDestText(t)
    \/ SetRetDate(date(2025, 3, 13))
    \/ \E b \in BOOLEAN : SetIncludeRental(b)
    \/ \E x \in {0, Usd(49, 99)} : SetOtherFixed(x)
    \/ \E b \in BOOLEAN : SetIncludeCarService(b)
    \/ \E b \in BOOLEAN : SetIndividualReturn(b)
    \/ \E m \in {AUTO, MANUAL} : SetMode(m)
    \/ \E x \in {0, Usd(200, 0)} : SetManualFlight(x)
    \/ \E o \in ListedOffers : Len(source.data) < MaxListed /\ OfferListed(o)
    \/ OffersWithdrawn
    \/ SearchFails

Spec == Init /\ [][Next]_vars

\* Checked bags: party size, route, carrier.
InitBags == InitWith({date(2025, 3, 10)}, {TRUE}, <<>>)

NextBags ==
    \/ \E n \in 1..MaxTravelers : SetTravelers(n)
    \/ \E a \in {BOS, MHT, BWI} : SetDepAirport(a)
    \/ \E p \in AIRLINE_OPTIONS : SetPreferredAirline(p)
    \/ \E t \in DestTexts : SetDestText(t)

SpecBags == InitBags /\ [][NextBags]_vars

\* The rental car: whether included, where, for how long.
InitRental == InitWith({date(2025, 3, 10)}, {TRUE}, <<>>)

NextRental ==
    \/ \E a \in {BOS, MHT, BWI} : SetDepAirport(a)
    \/ \E t \in DestTexts : SetDestText(t)
    \/ \E d \in DateChoices : SetDepDate(d)
    \/ \E d \in DateChoices : DaysBetween(d, dep_date) <= MaxStay /\ SetRetDate(d)
    \/ \E b \in BOOLEAN : SetIncludeRental(b)

SpecRental == InitRental /\ [][NextRental]_vars

\* The flight search for a typed destination: what the pricing source
\* answers, for how many travelers, in which mode.
InitFare == InitWith({date(2025, 3, 10)}, BOOLEAN, <<"t","p","a">>)

NextFare ==
    \/ \E n \in 1..MaxParty : SetTravelers(n)
    \/ \E p \in {"Delta", "JetBlue"} : SetPreferredAirline(p)
    \/ \E m \in {AUTO, MANUAL} : SetMode(m)
    \/ \E o \in FareOffers : Len(source.data) < MaxOffers /\ OfferListed(o)
    \/ OffersWithdrawn
    \/ SearchFails

SpecFare == InitFare /\ [][NextFare]_vars

\* The car service: party size, origin, dates, return mode.
InitCar == InitWith({date(2025, 3, 10)}, {TRUE}, <<>>)

NextCar ==
    \/ \E n \in 1..MaxTravelers : SetTravelers(n)
    \/ \E a \in {BOS, MHT, BWI} : SetDepAirport(a)
    \/ \E d \in DateChoices : SetDepDate(d)
    \/ \E d \in DateChoices : DaysBetween(d, dep_date) <= MaxStay /\ SetRetDate(d)
    \/ \E b \in BOOLEAN : SetIncludeCarService(b)
    \/ \E b \in BOOLEAN : SetIndividualReturn(b)

SpecCar == InitCar /\ [][NextCar]_vars

\* The trip request: origin, destination as typed, dates, party.
LookupKeys == { <<>>, <<"t","p","a">>, <<"T","p","a">>, <<"T","P","A">>,
                <<" ","T","P","A"," ">>, <<"b","o","s">>, <<"B","O","S">>,
                <<"m","h","t">>, <<"p","h","l">>, <<"L","H","R">>, <<"T","P">>,
                <<"T","P","A","X">> }

TripDates == { date(2024, 2, 28), date(2024, 3, 2), date(2025, 2, 28), date(2025, 3, 2),
               date(2025, 3, 10), date(2025, 3, 11), date(2025, 3, 13),
               date(2025, 12, 31), date(2026, 1, 1) }

InitTrip == InitWith({date(2025, 3, 10)}, {TRUE}, <<>>)

NextTrip ==
    \/ \E n \in 1..MaxParty : SetTravelers(n)
    \/ \E a \in {BOS, MHT} : SetDepAirport(a)
    \/ \E t \in LookupKeys : SetDestText(t)
    \/ \E d \in TripDates : SetDepDate(d)
    \/ \E d \in TripDates : DaysBetween(d, dep_date) <= MaxStay /\ SetRetDate(d)
    \/ \E b \in BOOLEAN : SetIncludeRental(b)

SpecTrip == InitTrip /\ [][NextTrip]_vars

\* ---------------------------------------------------------------------
\* Properties
\* ---------------------------------------------------------------------

\* the car-service request of the last run is one the contract covers
CarSupported ==
    /\ include_car_service
    /\ Upper(dep_airport) \in {BOS, MHT}
    /\ travelers >= 1 /\ travelers <= 14

\* C1: in every run, subtotal is the sum of exactly the eight line-item
\* totals, contingency is subtotal * 0.075 and grand_total is subtotal plus
\* that; a line item that is excluded (rental, car service) or unavailable
\* (no fare obtained in auto mode, car service unsupported) enters as 0.
C1_Aggregation ==
    /\ calc.subtotal = calc.flights_total + calc.bags_total + calc.hotel_total
                       + calc.meals_total + calc.rental_total
                       + calc.fixed_incidentals_total + calc.car.total + other_fixed
    /\ calc.contingency * 1000 = calc.subtotal * 75
    /\ calc.grand_total = calc.subtotal + calc.contingency
    /\ ~include_rental => calc.rental_total = 0
    /\ ~include_car_service => calc.car.total = 0
    /\ (include_car_service /\ ~CarSupported) => calc.car.total = 0
    /\ (mode = AUTO /\ calc.fare.status \in {"not-called", "error", "none"})
          => calc.flights_total = 0

\* C1 witness: rental excluded, the search failed in auto mode, a supported
\* car service and a manual extra are part of a positive subtotal.
C1_Witness ==
    /\ ~include_rental
    /\ mode = AUTO /\ calc.fare.status = "error"
    /\ include_car_service /\ calc.car.total > 0
    /\ other_fixed > 0
    /\ travelers = 2
    /\ calc.subtotal = calc.bags_total + calc.hotel_total + calc.meals_total
                       + calc.fixed_incidentals_total + calc.car.total + other_fixed

\* C6: for a supported car-service request, the surcharge inside the
\* car-service total is the fixed amount when the departure date or the
\* return date is a holiday (once, also when both are) and 0 otherwise.
C6_HolidaySurchargeOnce ==
    CarSupported =>
        LET fee == calc.car.total - (calc.car.outbound_one_way + calc.car.return_total)
        IN  /\ fee = (IF is_holiday(dep_date) \/ is_holiday(ret_date) THEN Usd(25, 0) ELSE 0)
            /\ calc.car_holiday_fee = fee

\* C6 witness: a supported request with both dates on a holiday.
C6_Witness ==
    /\ CarSupported
    /\ is_holiday(dep_date) /\ is_holiday(ret_date)
    /\ calc.car.total = calc.car.outbound_one_way + calc.car.return_total + Usd(25, 0)

\* C7: car service requested for more than 14 travelers or from an origin
\* other than BOS and MHT gives an unsupported tier label, a total of 0,
\* outbound and return amounts of 0, no holiday surcharge, and an
\* explanation on the page.
C7_UnsupportedIsZero ==
    (include_car_service /\ (travelers > 14 \/ Upper(dep_airport) \notin {BOS, MHT})) =>
        /\ calc.car.outbound_tier \in {"unsupported", "unsupported-airport"}
        /\ calc.car.total = 0
        /\ calc.car.outbound_one_way = 0
        /\ calc.car.return_one_way = 0
        /\ calc.car.return_total = 0
        /\ calc.car_holiday_fee = 0
        /\ ~calc.car.dep_is_holiday /\ ~calc.car.ret_is_holiday
        /\ \E notice \in calc.shown :
              notice \in {"error: car service only available for BOS or MHT",
                          "error: car service supports up to 14 passengers"}

\* C7 witness: 15 travelers from BOS, leaving on a holiday.
C7_Witness ==
    /\ include_car_service
    /\ travelers = 15
    /\ dep_airport = BOS
    /\ is_holiday(dep_date)
    /\ calc.car.outbound_tier = "unsupported"

\* the tier of a party of n, as the contract states it
ContractTier(n) == IF n <= 3 THEN "1-3" ELSE IF n <= 5 THEN "4-5" ELSE "6-14"

\* C8: for a supported request, the car-service total before surcharge is
\* the one-way rate of the tier of n, plus n times the 1-3 rate when
\* individual return is selected and one more one-way fare of the tier of n
\* otherwise.
C8_CarServiceBase ==
    CarSupported =>
        LET rates    == CAR_SERVICE_RATES_ONE_WAY[Upper(dep_airport)]
            outbound == rates[ContractTier(travelers)]
            back     == IF individual_return_home THEN rates["1-3"] * travelers
                        ELSE rates[ContractTier(travelers)]
        IN  /\ calc.car.total - calc.car_holiday_fee = outbound + back
            /\ calc.car.outbound_tier = ContractTier(travelers)

\* C8 witness: 7 travelers from BOS on Dec 25, group return: tier 6-14
\* both ways.
C8_Witness ==
    /\ CarSupported
    /\ travelers = 7 /\ dep_airport = BOS /\ ~individual_return_home
    /\ dep_date = date(2025, 12, 25)
    /\ calc.car.outbound_tier = "6-14" /\ calc.car.return_tier = "6-14"
    /\ calc.car.total = Usd(295, 0) + Usd(295, 0) + Usd(25, 0)

\* C9: bags_total is per_traveler_fee * n, where per_traveler_fee is the
\* carrier's table fee (the default fee for a carrier not in the table)
\* when origin and destination are both known domestic airports, and 0
\* otherwise.
C9_BagFee ==
    LET domestic == dep_airport \in US_AIRPORTS /\ calc.dest_airport \in US_AIRPORTS
        fee      == IF ~domestic THEN 0
                    ELSE IF preferred_airline \in DOMAIN DOMESTIC_BAG_FEE_BY_AIRLINE
                    THEN DOMESTIC_BAG_FEE_BY_AIRLINE[preferred_airline]
                    ELSE Usd(70, 0)
    IN  /\ calc.bag_fee_per_traveler = fee
        /\ calc.bags_total = fee * travelers

\* C9 witness: three travelers on a domestic route with a carrier that
\* charges.
C9_Witness ==
    /\ travelers = 3
    /\ dep_airport = BWI /\ calc.dest_airport = <<"T","P","A">>
    /\ preferred_airline = "JetBlue"
    /\ calc.bags_total = Usd(210, 0)

\* the daily rate round(base * 1.15 * 0.88, 2) of the table entry of the
\* location, or of the default base 80 for a location not in the table
RentalRateAt(location) ==
    LET base == IF location \in DOMAIN HERTZ_BASE_DAILY_BY_AIRPORT
                THEN HERTZ_BASE_DAILY_BY_AIRPORT[location] ELSE Usd(80, 0)
    IN  Round2Set((base \div 100) * 115 * 88, 100)

\* C10 as stated: with rental included, the daily rate is that of the
\* destination (default base when the destination is not in the table) and
\* rental_total is the daily rate times trip_days; without rental the
\* total is 0.
C10_RentalAtDestination ==
    /\ include_rental =>
          /\ calc.daily_rental_rate \in RentalRateAt(calc.dest_airport)
          /\ calc.rental_total = calc.daily_rental_rate * calc.trip_days
    /\ ~include_rental => calc.rental_total = 0

\* C10 as amended: the location is the destination when its code has
\* exactly 3 characters, and the departure airport otherwise.
C10_RentalRate ==
    LET location == IF Len(calc.dest_airport) = 3 THEN calc.dest_airport ELSE dep_airport
    IN  /\ include_rental =>
              /\ calc.daily_rental_rate \in RentalRateAt(location)
              /\ calc.rental_total = calc.daily_rental_rate * calc.trip_days
        /\ ~include_rental => calc.rental_total = 0

\* C10 witness: rental included, no usable destination code, departure
\* from MHT: the rate is MHT's, 60 * 1.15 * 0.88 = 60.72.
C10_Witness ==
    /\ include_rental
    /\ Len(calc.dest_airport) # 3
    /\ dep_airport = MHT
    /\ calc.daily_rental_rate = Usd(60, 72)
    /\ calc.trip_days >= 3
    /\ calc.rental_total = Usd(60, 72) * calc.trip_days

\* ---- the flight fare (SpecFare) ----

\* a usable price: the field parses to a non-negative number
UsablePrice(o) == o.grandTotal.kind = "decimal" /\ o.grandTotal.value >= 0

\* the last run sent a search, and source is what it answered
Searched == calc.queries = 1

\* the usable prices of all offers of the answer, and of the offers of the
\* preferred carrier
UsablePrices == PricesOf(SelectSeq(source.data, UsablePrice))
UsablePreferredPrices ==
    PricesOf(SelectSeq(source.data,
                       LAMBDA o : UsablePrice(o)
                                  /\ IsPreferredOffer(o, AIRLINE_CODES[preferred_airline])))

\* C2: if at least one offer of the preferred carrier has a usable price,
\* the source is "preferred" and the price is the mean (to the cent) of the
\* preferred carrier's usable prices only.
C2_PreferredMean ==
    (Searched /\ ~source.raises /\ UsablePreferredPrices # <<>>) =>
        /\ calc.fare.status = "preferred"
        /\ calc.fare.avg_price # None
        /\ calc.fare.avg_price[1] \in RoundedMean(UsablePreferredPrices)

\* C3: if no offer of the preferred carrier has a usable price but some
\* offer has, the fare is the any-carrier mean (to the cent) of all usable
\* prices, the advisory is shown, and flights_total is that price times the
\* traveler count.
C3_AnyCarrierFallback ==
    (Searched /\ ~source.raises /\ UsablePreferredPrices = <<>> /\ UsablePrices # <<>>) =>
        /\ calc.fare.status = "fallback_all"
        /\ calc.fare.avg_price # None
        /\ calc.fare.avg_price[1] \in RoundedMean(UsablePrices)
        /\ "warning: no usable prices for the preferred airline, using all airlines" \in calc.shown
        /\ calc.flights_total = calc.fare.avg_price[1] * travelers

\* C4: a run sends at most one search; when the search fails, returns no
\* offers or returns no offer with a usable price, no price is reported and
\* the flight line is 0.
C4_UnavailableIsZero ==
    /\ calc.queries <= 1
    /\ (Searched /\ (source.raises \/ source.data = <<>> \/ UsablePrices = <<>>)) =>
          /\ calc.fare.avg_price = None
          /\ calc.fare.status \in {"error", "none"}
          /\ calc.flight_pp = 0
          /\ calc.flights_total = 0

\* C5: a resolved fare is never negative, and only offers with a usable
\* price (parsed, not negative) enter its average.
C5_OnlyUsablePrices ==
    (Searched /\ calc.fare.avg_price # None) =>
        /\ calc.fare.avg_price[1] >= 0
        /\ calc.fare.status = "preferred" =>
              /\ UsablePreferredPrices # <<>>
              /\ calc.fare.avg_price[1] \in RoundedMean(UsablePreferredPrices)
        /\ calc.fare.status = "fallback_all" =>
              /\ UsablePrices # <<>>
              /\ calc.fare.avg_price[1] \in RoundedMean(UsablePrices)

\* position of a letter in the alphabet, whatever its case; 0 for any other
\* character
CaseIndex(c) ==
    IF \E i \in DOMAIN LowerLetters : c \in {LowerLetters[i], UpperLetters[i]}
    THEN CHOOSE i \in DOMAIN LowerLetters : c \in {LowerLetters[i], UpperLetters[i]}
    ELSE 0

SameIgnoringCase(a, b) ==
    /\ Len(a) = Len(b)
    /\ \A i \in 1..Len(a) :
          a[i] = b[i] \/ (CaseIndex(a[i]) # 0 /\ CaseIndex(a[i]) = CaseIndex(b[i]))

\* the rate a table holds for a key: that of the entry the key matches
\* case-insensitively, the default when there is none
TableRate(table, key, default) ==
    LET matches == {e \in DOMAIN table : SameIgnoringCase(e, key)}
    IN  IF matches = {} THEN default ELSE table[CHOOSE e \in matches : TRUE]

\* C11: for every key (the destination as typed, the destination as the
\* script normalises it, the departure airport, the empty string), the hotel
\* lookup returns the table's rate of the entry the key matches
\* case-insensitively and the declared default otherwise, and the rental
\* lookup does the same with its base rate; the nightly rate used in
\* hotel_total is such a table or default value, and is positive.
C11_LookupTotal ==
    /\ \A key \in {dest_text, calc.dest_airport, dep_airport, <<>>} :
          /\ hotel_rate(key)
                = TableRate(HOTEL_BASE_RATE_BY_AIRPORT, key, DEFAULT_HOTEL_NIGHTLY_RATE)
          /\ hertz_rate(key) \in
                Round2Set((TableRate(HERTZ_BASE_DAILY_BY_AIRPORT, key, Usd(80, 0)) \div 100)
                          * 115 * 88, 100)
    /\ calc.nightly_hotel_rate
          = TableRate(HOTEL_BASE_RATE_BY_AIRPORT, calc.dest_airport, DEFAULT_HOTEL_NIGHTLY_RATE)
    /\ calc.nightly_hotel_rate > 0
    /\ calc.hotel_total = calc.nightly_hotel_rate * calc.trip_nights * travelers

\* C11 witness: a mixed-case key gets the rate of the entry it matches, and
\* that rate is charged for two rooms.
C11_Witness ==
    /\ dest_text = <<"T","p","a">>
    /\ hotel_rate(dest_text) = Usd(215, 0)
    /\ calc.nightly_hotel_rate = Usd(215, 0)
    /\ travelers = 2
    /\ calc.hotel_total = Usd(430, 0) * calc.trip_nights
    /\ hotel_rate(<<"L","H","R">>) = Usd(190, 0)

\* the request of the last run fails validation: return not after
\* departure, no traveler, or origin equal to destination
InvalidRequest ==
    \/ DaysBetween(ret_date, dep_date) <= 0
    \/ travelers < 1
    \/ Upper(dep_airport) = calc.dest_airport

\* C12: for a request that fails validation, the run sends no search to the
\* pricing source and computes no cost total.
C12_RejectedBeforeResolvers ==
    InvalidRequest =>
        /\ calc.queries = 0
        /\ DOMAIN calc \cap {"subtotal", "contingency", "grand_total"} = {}

\* date a is later than date b
After(a, b) ==
    \/ a.year > b.year
    \/ a.year = b.year /\ a.month > b.month
    \/ a.year = b.year /\ a.month = b.month /\ a.day > b.day

\* the number of days to step over, one calendar day at a time, from a to
\* the later date b
RECURSIVE StepsBetween(_, _)
StepsBetween(a, b) == IF a = b THEN 0 ELSE 1 + StepsBetween(NextDay(a), b)

\* C13: with the return after the departure, trip_days is the number of
\* days between the two dates plus 1 and trip_nights is trip_days - 1, so
\* at least 2 days and 1 night; hotel and housekeeping are charged per
\* night, meals and rental per day, of that one derivation.
C13_TripLength ==
    After(ret_date, dep_date) =>
        /\ calc.trip_days = StepsBetween(dep_date, ret_date) + 1
        /\ calc.trip_nights = calc.trip_days - 1
        /\ calc.trip_days >= 2
        /\ calc.trip_nights >= 1
        /\ calc.hotel_total = calc.nightly_hotel_rate * calc.trip_nights * travelers
        /\ calc.housekeeping_total = HOUSEKEEPING_PER_NIGHT * calc.trip_nights * travelers
        /\ calc.meals_total = MEALS_PER_DAY * calc.trip_days * travelers
        /\ include_rental => calc.rental_total = calc.daily_rental_rate * calc.trip_days

\* C13 witness: a stay over a leap day, 28 February to 2 March 2024, for
\* two travelers with a rental: 4 days and 3 nights.
C13_Witness ==
    /\ dep_date = date(2024, 2, 28)
    /\ ret_date = date(2024, 3, 2)
    /\ calc.trip_days = 4
    /\ calc.trip_nights = 3
    /\ travelers = 2
    /\ include_rental
    /\ calc.meals_total = Usd(800, 0)
    /\ calc.housekeeping_total = HOUSEKEEPING_PER_NIGHT * 6
    /\ calc.rental_total = calc.daily_rental_rate * 4
    /\ calc.rental_total > 0

====
